---- MODULE Spec2Model ----
(***************************************************************************)
(* State-machine model of the ChatBot single-page application:             *)
(*   App       (src/src/App.tsx, lines 6-43)    the shell / router          *)
(*   AuthForm  (src/src/App.tsx, lines 55-162)  the credential gate         *)
(*   Chat      (src/src/components/Chat.tsx)    the transcript view         *)
(*                                                                         *)
(* JavaScript strings are modelled as sequences of tokens (a token is an   *)
(* indivisible run of characters), so that trim, startsWith, includes,     *)
(* split and += are computed, not assumed.  A React component instance is  *)
(* a record while it is mounted and Nil while it is not.  Every run of an  *)
(* async handler is a record in a slot of "handlers" (Chat.handleSubmit)   *)
(* or the record "authRun" (AuthForm.handleAuth); its pc is the await it   *)
(* is suspended at.  One action is one turn of the event loop: a DOM       *)
(* event, or the continuation of one await up to the next await.           *)
(***************************************************************************)
EXTENDS Integers, Sequences, FiniteSets, Bags, TLC

\* ------------------------------------------------------------------ bounds
\* Longest transcript: a submission is started only while the transcript,
\* with the two entries of every run still under way, has room for two more.
MaxMessages == 4
\* Number of handleSubmit runs that may be suspended at the same time.
MaxHandlers == 2

\* ------------------------------------------------------- JavaScript values
Nil == [kind |-> "nil"]                 \* no component instance / no run
Null == [kind |-> "null"]               \* JavaScript null
Undefined == [kind |-> "undefined"]     \* JavaScript undefined
Str(s) == [kind |-> "string", val |-> s]

\* a === b on the values above
StrictEquals(a, b) == a = b

Whitespace == {" ", "\n"}

RECURSIVE TrimStart(_)
TrimStart(s) ==
  IF s # <<>> /\ Head(s) \in Whitespace THEN TrimStart(Tail(s)) ELSE s

RECURSIVE TrimEnd(_)
TrimEnd(s) ==
  IF s # <<>> /\ s[Len(s)] \in Whitespace
    THEN TrimEnd(SubSeq(s, 1, Len(s) - 1))
    ELSE s

\* String.prototype.trim
Trim(s) == TrimEnd(TrimStart(s))

\* String.prototype.startsWith
StartsWith(s, p) == Len(p) <= Len(s) /\ SubSeq(s, 1, Len(p)) = p

\* String.prototype.includes
Includes(s, sub) ==
  \E i \in 1..(Len(s) + 1) :
    i + Len(sub) - 1 <= Len(s) /\ SubSeq(s, i, i + Len(sub) - 1) = sub

\* String.prototype.split on a one-token separator: the sequence of pieces
RECURSIVE SplitFrom(_, _, _)
SplitFrom(s, sep, cur) ==
  IF s = <<>> THEN <<cur>>
  ELSE IF Head(s) = sep THEN <<cur>> \o SplitFrom(Tail(s), sep, <<>>)
  ELSE SplitFrom(Tail(s), sep, Append(cur, Head(s)))

Split(s, sep) == SplitFrom(s, sep, <<>>)

\* a falsy string is the empty string
Truthy(s) == s # <<>>

\* --------------------------------------------------------- input alphabets
\* What the user can type into the chat box: nothing, blanks, padded text.
Inputs == { <<>>, <<" ">>, <<" ", "Hello">> }

ImageFile == [kind |-> "file", name |-> "photo.png", type |-> <<"image/", "png">>]
TextFile == [kind |-> "file", name |-> "notes.txt", type |-> <<"text/", "plain">>]
Files == { ImageFile, TextFile }

\* Base64 payloads a data URL can carry
Payloads == { <<"QUJD">> }
\* Text a non-image file can hold.
FileTexts == { <<"abc">> }

\* FileReader.readAsDataURL result for a file with the given payload
DataURL(file, b64) == <<"data:">> \o file.type \o <<";base64", ",">> \o b64

\* Outcomes of a FileReader read: onload with reader.result, or onerror
Loaded(result) == [kind |-> "load", result |-> result]
ReadError == [kind |-> "error"]

\* Outcomes of ollama.chat
Replies == { <<"Hi there">> }
Responses == { Null, [done |-> TRUE] }
               \cup { [done |-> TRUE, message |-> [role |-> "assistant", content |-> r]] : r \in Replies }
Thrown == { [isError |-> TRUE, message |-> <<"Failed to fetch">>],
            [isError |-> TRUE, message |-> <<"NetworkError", " when attempting to fetch resource.">>],
            [isError |-> TRUE, message |-> <<"model not found">>],
            [isError |-> FALSE, message |-> <<"Failed to fetch">>] }
Outcomes == { [kind |-> "resolve", response |-> r] : r \in Responses }
              \cup { [kind |-> "reject", error |-> e] : e \in Thrown }

\* Credentials the user can type (both fields are "required": never empty)
Usernames == { "admin", "guest" }
Passwords == { "secret", "wrong" }
\* import.meta.env.VITE_AUTH_USERNAME / VITE_AUTH_PASSWORD
EnvUsernames == { Undefined, Str("admin") }
EnvPasswords == { Undefined, Str("secret") }

VARIABLES
  env,              \* [username, password]: the build-time reference pair
  isAuthenticated,  \* App state
  authForm,         \* the AuthForm instance: [username, password, loading] or Nil
  authRun,          \* the suspended run of AuthForm.handleAuth, or Nil
  chat,             \* the Chat instance: [messages, input, isLoading, selectedFile] or Nil
  handlers,         \* the bag of suspended runs of Chat.handleSubmit
  delivered         \* what the awaited promise gave the continuation of a
                    \* mounted Chat's handleSubmit run that ran in the last
                    \* step; Nil otherwise

vars == <<env, isAuthenticated, authForm, authRun, chat, handlers, delivered>>

\* ------------------------------------------------------------ App, AuthForm
\* App.tsx 19: which of the two views the router renders
VisibleView(authenticated) == IF ~authenticated THEN "AuthForm" ELSE "Chat"

\* AuthForm's useState initialisers
AuthFormInit == [username |-> "", password |-> "", loading |-> FALSE]

\* Chat's useState initialisers
ChatInit == [messages |-> <<>>, input |-> <<>>, isLoading |-> FALSE, selectedFile |-> Null]

\* Rendered with the slip of keeping an instance once it exists, whatever
\* view is visible
RenderedKept(view, authenticated, instance, initial) ==
  IF instance # Nil THEN instance
  ELSE IF VisibleView(authenticated) = view THEN initial ELSE Nil

\* The instance of a view after a render: kept while the view stays visible,
\* created from its initialisers when it becomes visible, dropped otherwise.
Rendered(view, authenticated, instance, initial) ==
  IF VisibleView(authenticated) = view
    THEN (IF instance = Nil THEN initial ELSE instance)
    ELSE Nil

\* CredentialsMatch with the slip of || for &&
CredentialsMatchEither(username, password) ==
  \/ StrictEquals(Str(username), env.username)
  \/ StrictEquals(Str(password), env.password)

\* The condition of handleAuth's if
CredentialsMatch(username, password) ==
  /\ StrictEquals(Str(username), env.username)
  /\ StrictEquals(Str(password), env.password)

Init ==
  /\ env \in [username : EnvUsernames, password : EnvPasswords]
  /\ isAuthenticated = FALSE
  /\ authForm = Rendered("AuthForm", FALSE, Nil, AuthFormInit)
  /\ chat = Rendered("Chat", FALSE, Nil, ChatInit)
  /\ authRun = Nil
  /\ handlers = EmptyBag
  /\ delivered = Nil

\* onChange of the username field
SetUsername(v) ==
  /\ authForm # Nil
  /\ v # authForm.username
  /\ authForm' = [authForm EXCEPT !.username = v]
  /\ delivered' = Nil
  /\ UNCHANGED <<env, isAuthenticated, authRun, chat, handlers>>

\* onChange of the password field
SetPassword(v) ==
  /\ authForm # Nil
  /\ v # authForm.password
  /\ authForm' = [authForm EXCEPT !.password = v]
  /\ delivered' = Nil
  /\ UNCHANGED <<env, isAuthenticated, authRun, chat, handlers>>

\* The form is submitted: handleAuth runs up to its first await.  The
\* submit button is disabled while loading, and both fields are required.
HandleAuth ==
  /\ authForm # Nil
  /\ ~authForm.loading
  /\ authForm.username # "" /\ authForm.password # ""
  /\ authForm' = [authForm EXCEPT !.loading = TRUE]
  /\ authRun' = [pc |-> "delay", username |-> authForm.username,
                 password |-> authForm.password]
  /\ delivered' = Nil
  /\ UNCHANGED <<env, isAuthenticated, chat, handlers>>

\* The 500 ms timer fires and the credentials match: onLogin(true), then
\* the finally block; the router swaps the views.
AuthSucceed ==
  /\ authRun # Nil /\ authRun.pc = "delay"
  /\ CredentialsMatch(authRun.username, authRun.password)
  /\ isAuthenticated' = TRUE
  /\ authForm' = Rendered("AuthForm", TRUE, [authForm EXCEPT !.loading = FALSE], AuthFormInit)
  /\ chat' = Rendered("Chat", TRUE, chat, ChatInit)
  /\ authRun' = Nil
  /\ delivered' = Nil
  /\ UNCHANGED <<env, handlers>>

\* AuthMismatch with the slip of calling onLogin(true) whatever the
\* comparison gave
AuthMismatchLogsIn ==
  /\ authRun # Nil /\ authRun.pc = "delay"
  /\ ~CredentialsMatch(authRun.username, authRun.password)
  /\ isAuthenticated' = TRUE
  /\ authForm' = Rendered("AuthForm", TRUE, [authForm EXCEPT !.loading = FALSE], AuthFormInit)
  /\ chat' = Rendered("Chat", TRUE, chat, ChatInit)
  /\ authRun' = Nil
  /\ delivered' = Nil
  /\ UNCHANGED <<env, handlers>>

\* The 500 ms timer fires and the credentials differ: the shake animation
\* is started and awaited.
AuthMismatch ==
  /\ authRun # Nil /\ authRun.pc = "delay"
  /\ ~CredentialsMatch(authRun.username, authRun.password)
  /\ authRun' = [authRun EXCEPT !.pc = "shake"]
  /\ delivered' = Nil
  /\ UNCHANGED <<env, isAuthenticated, authForm, chat, handlers>>

\* The shake animation ends: throw, catch (alert), finally.
AuthReject ==
  /\ authRun # Nil /\ authRun.pc = "shake"
  /\ authForm' = [authForm EXCEPT !.loading = FALSE]
  /\ authRun' = Nil
  /\ delivered' = Nil
  /\ UNCHANGED <<env, isAuthenticated, chat, handlers>>

\* A run of handleSubmit whose component is gone: its state setters do
\* nothing from now on, so only its position is kept.
Detach(run) == [pc |-> run.pc, live |-> FALSE]

Runs == BagToSet(handlers)
One(run) == SetToBag({run})

\* The bag of runs after every run lost its component
DetachAll(bag) ==
  LET detached == { Detach(r) : r \in BagToSet(bag) }
      Count(d) == LET from == { r \in BagToSet(bag) : Detach(r) = d }
                      RECURSIVE Sum(_)
                      Sum(S) == IF S = {} THEN 0
                                ELSE LET r == CHOOSE r \in S : TRUE
                                     IN  CopiesIn(r, bag) + Sum(S \ {r})
                  IN  Sum(from)
  IN  [d \in detached |-> Count(d)]

\* The Logout button: onLogout() is setIsAuthenticated(false); the router
\* swaps the views and the Chat instance is discarded.
Logout ==
  /\ chat # Nil
  /\ isAuthenticated' = FALSE
  /\ authForm' = Rendered("AuthForm", FALSE, authForm, AuthFormInit)
  /\ chat' = Rendered("Chat", FALSE, chat, ChatInit)
  /\ handlers' = DetachAll(handlers)
  /\ delivered' = Nil
  /\ UNCHANGED <<env, authRun>>

\* -------------------------------------------------------------------- Chat
\* IsEmptySubmission with the slip of leaving out trim()
IsEmptySubmissionUntrimmed(input, selectedFile) ==
  ~Truthy(input) /\ selectedFile = Null

\* Chat.tsx 35: the emptiness guard of handleSubmit
IsEmptySubmission(input, selectedFile) ==
  ~Truthy(Trim(input)) /\ selectedFile = Null

\* Chat.tsx 37-40: the user message under construction
NewUserMessage(input) == [role |-> "user", content |-> input]

\* IsImage with the slip of === for startsWith
IsImageExact(file) == file.type = <<"image/">>

\* Chat.tsx 46
IsImage(file) == StartsWith(file.type, <<"image/">>)

\* Chat.tsx 53: result.split(",")[1]
ExtractBase64(result) ==
  LET parts == Split(result, ",")
  IN  IF Len(parts) >= 2 THEN Str(parts[2]) ELSE Undefined

\* Chat.tsx 59: userMessage.images = [imageBase64]
WithImage(message, imageBase64) ==
  [role |-> message.role, content |-> message.content, images |-> <<imageBase64>>]

HiddenMarker == <<"\n", "\n", "[Hidden File Content]:", "\n">>

\* Chat.tsx 84: userMessage.content += marker + hiddenContent
WithHiddenContent(message, hiddenContent) ==
  [message EXCEPT !.content = message.content \o HiddenMarker \o hiddenContent]

ImageErrorText == <<"Sorry, there was an error processing your image. Please try again.">>
FileErrorText == <<"Sorry, there was an error processing your file. Please try again.">>
GenericErrorText == <<"Sorry, I encountered an error processing your request.">>
ConnectErrorText ==
  <<"Unable to connect to Ollama. Please ", "make sure Ollama is running", " and try again.">>

AssistantMessage(content) == [role |-> "assistant", content |-> content]

\* Chat.tsx 60-70 and 85-95: the catch blocks of the two file reads
ReadErrorMessage(file) ==
  AssistantMessage(IF IsImage(file) THEN ImageErrorText ELSE FileErrorText)

\* AfterReadError with the slip of setting the transcript to the diagnostic
\* alone instead of appending it
AfterReadErrorReplaces(c, file) ==
  [c EXCEPT !.messages = <<ReadErrorMessage(file)>>, !.selectedFile = Null]

\* AfterReadError with the slip of leaving out setSelectedFile(null)
AfterReadErrorKeepsFile(c, file) ==
  [c EXCEPT !.messages = Append(c.messages, ReadErrorMessage(file))]

\* Chat.tsx 62-69 / 87-94: the state the catch block leaves
AfterReadError(c, file) ==
  [c EXCEPT !.messages = Append(c.messages, ReadErrorMessage(file)),
            !.selectedFile = Null]

\* AfterSend with the slip of leaving out setMessages
AfterSendNoAppend(c, userMessage) ==
  [c EXCEPT !.input = <<>>,
            !.selectedFile = Null,
            !.isLoading = TRUE]

\* AfterSend with the slip of leaving out setSelectedFile(null)
AfterSendKeepsFile(c, userMessage) ==
  [c EXCEPT !.messages = Append(c.messages, userMessage),
            !.input = <<>>,
            !.isLoading = TRUE]

\* Chat.tsx 100-103
AfterSend(c, userMessage) ==
  [c EXCEPT !.messages = Append(c.messages, userMessage),
            !.input = <<>>,
            !.selectedFile = Null,
            !.isLoading = TRUE]

ModelName == "llama3.2-vision:11b"

\* BuildRequest with the slip of sending the transcript so far as well
BuildRequestWithHistory(userMessage, imageBase64) ==
  [model |-> ModelName,
   messages |-> chat.messages \o
                << IF imageBase64.kind = "string" /\ Truthy(imageBase64.val)
                     THEN [role |-> "user", content |-> userMessage.content,
                           images |-> <<imageBase64>>]
                     ELSE [role |-> "user", content |-> userMessage.content] >>]

\* Chat.tsx 106-115: the argument of ollama.chat
BuildRequest(userMessage, imageBase64) ==
  [model |-> ModelName,
   messages |-> << IF imageBase64.kind = "string" /\ Truthy(imageBase64.val)
                     THEN [role |-> "user", content |-> userMessage.content,
                           images |-> <<imageBase64>>]
                     ELSE [role |-> "user", content |-> userMessage.content] >>]

\* Chat.tsx 117-119: what the try block throws for a given response, if anything
InvalidResponse(response) ==
  response = Null \/ "message" \notin DOMAIN response

InvalidResponseError == [isError |-> TRUE, message |-> <<"Invalid response from Ollama">>]

\* ErrorMessageFor with the slip of && for || between the two includes
ErrorMessageForBoth(error) ==
  IF /\ error.isError
     /\ Includes(error.message, <<"Failed to fetch">>)
     /\ Includes(error.message, <<"NetworkError">>)
    THEN ConnectErrorText
    ELSE GenericErrorText

\* Chat.tsx 130-136
ErrorMessageFor(error) ==
  IF /\ error.isError
     /\ \/ Includes(error.message, <<"Failed to fetch">>)
        \/ Includes(error.message, <<"NetworkError">>)
    THEN ConnectErrorText
    ELSE GenericErrorText

\* Chat.tsx 105-144: the assistant entry the try/catch appends for an outcome
AssistantEntry(outcome) ==
  IF outcome.kind = "resolve"
    THEN IF InvalidResponse(outcome.response)
           THEN AssistantMessage(ErrorMessageFor(InvalidResponseError))
           ELSE AssistantMessage(outcome.response.message.content)
    ELSE AssistantMessage(ErrorMessageFor(outcome.error))

\* AfterSettle with the slip of clearing the text box when the call settles
AfterSettleClearsInput(c, entry) ==
  [c EXCEPT !.messages = Append(c.messages, entry), !.input = <<>>, !.isLoading = FALSE]

\* AfterSettle with the slip of leaving out the finally block
AfterSettleStaysLoading(c, entry) ==
  [c EXCEPT !.messages = Append(c.messages, entry)]

\* AfterSettle with the slip of putting the new entry first
AfterSettlePrepend(c, entry) ==
  [c EXCEPT !.messages = <<entry>> \o c.messages, !.isLoading = FALSE]

\* Chat.tsx 121-127 / 138-147: the append and the finally block
AfterSettle(c, entry) ==
  [c EXCEPT !.messages = Append(c.messages, entry), !.isLoading = FALSE]

\* Chat.tsx 170-207: the transcript as rendered, one bubble per entry, keyed
\* and placed by its index in messages
RenderMessages(messages) ==
  [index \in 1..Len(messages) |->
     [key |-> index,
      className |-> IF messages[index].role = "user" THEN "justify-end" ELSE "justify-start",
      images |-> IF "images" \in DOMAIN messages[index] THEN messages[index].images ELSE <<>>,
      markdown |-> messages[index].content]]

\* Apply with the slip of keeping the state of the inference continuation
\* where every Chat instance finds it: the late update of a run whose Chat is
\* gone lands in the Chat that is mounted
ApplyLate(run, c, updated) ==
  IF c # Nil /\ (run.live \/ run.pc = "infer") THEN updated ELSE c

\* A state update requested by a run: applied to the run's component, and
\* dropped when that component has been unmounted.
Apply(run, c, updated) == IF run.live /\ c # Nil THEN updated ELSE c

\* The value a run's continuation receives from the promise it awaited
Receive(run, value) == IF run.live THEN value ELSE Nil

\* The run suspended at the file read (Chat.tsx 49-57 / 75-82)
ReadRun(file, userMessage) ==
  [pc |-> "read", live |-> TRUE, file |-> file, userMessage |-> userMessage]

\* The run suspended at ollama.chat (Chat.tsx 106); "at" is the place in
\* the transcript where line 100 put its user message
InferRun(file, userMessage, imageBase64, at) ==
  [pc |-> "infer", live |-> TRUE, file |-> file, userMessage |-> userMessage,
   imageBase64 |-> imageBase64, at |-> at,
   request |-> BuildRequest(userMessage, imageBase64)]

\* The continuation of a run after its file read: Chat.tsx 100-106
Sent(run, userMessage, imageBase64) ==
  IF run.live
    THEN InferRun(run.file, userMessage, imageBase64, Len(chat.messages) + 1)
    ELSE Detach([run EXCEPT !.pc = "infer"])

\* onChange of the text box
SetInput(v) ==
  /\ chat # Nil
  /\ v # chat.input
  /\ chat' = [chat EXCEPT !.input = v]
  /\ delivered' = Nil
  /\ UNCHANGED <<env, isAuthenticated, authForm, authRun, handlers>>

\* onChange of the file input: a chosen file, or null when the picker is
\* left without a file
SelectFile(f) ==
  /\ chat # Nil
  /\ f # chat.selectedFile
  /\ chat' = [chat EXCEPT !.selectedFile = f]
  /\ delivered' = Nil
  /\ UNCHANGED <<env, isAuthenticated, authForm, authRun, handlers>>

\* The form can be submitted: the Chat is mounted and the submit button
\* (disabled = isLoading) is enabled.
CanSubmit == chat # Nil /\ ~chat.isLoading

LiveRuns == { r \in Runs : r.live }

\* How many suspended runs there are among those of S
RECURSIVE CountRuns(_)
CountRuns(S) ==
  IF S = {} THEN 0
  ELSE LET r == CHOOSE r \in S : TRUE
       IN  CopiesIn(r, handlers) + CountRuns(S \ {r})

\* Transcript entries the runs under way may still append
Reserved == 2 * CountRuns(LiveRuns)

\* Room for one more run within the bounds
HasRoom ==
  /\ BagCardinality(handlers) < MaxHandlers
  /\ Len(chat.messages) + Reserved + 2 <= MaxMessages

\* handleSubmit returns at its guard (Chat.tsx 35)
SubmitIgnored ==
  /\ CanSubmit
  /\ IsEmptySubmission(chat.input, chat.selectedFile)
  /\ delivered' = Nil
  /\ UNCHANGED <<env, isAuthenticated, authForm, authRun, chat, handlers>>

\* handleSubmit without a pending attachment: runs to ollama.chat
SubmitText ==
  /\ CanSubmit
  /\ ~IsEmptySubmission(chat.input, chat.selectedFile)
  /\ chat.selectedFile = Null
  /\ HasRoom
  /\ LET userMessage == NewUserMessage(chat.input)
     IN  /\ chat' = AfterSend(chat, userMessage)
         /\ handlers' = handlers (+) One(InferRun(chat.selectedFile, userMessage, Undefined, Len(chat.messages) + 1))
  /\ delivered' = Nil
  /\ UNCHANGED <<env, isAuthenticated, authForm, authRun>>

\* handleSubmit with a pending attachment: runs to the await of the file read
SubmitFile ==
  /\ CanSubmit
  /\ ~IsEmptySubmission(chat.input, chat.selectedFile)
  /\ chat.selectedFile # Null
  /\ HasRoom
  /\ handlers' = handlers (+) One(ReadRun(chat.selectedFile, NewUserMessage(chat.input)))
  /\ delivered' = Nil
  /\ UNCHANGED <<env, isAuthenticated, authForm, authRun, chat>>

\* reader.onload of an image read: Chat.tsx 51-59, then 100-106.  (A
\* detached run goes on to ollama.chat whatever file it was reading.)
ImageLoaded(run, b64) ==
  /\ run \in Runs /\ run.pc = "read" /\ (run.live => IsImage(run.file))
  /\ delivered' = Receive(run, Loaded(DataURL(run.file, b64)))
  /\ IF run.live
       THEN LET imageBase64 == ExtractBase64(delivered'.result)
                userMessage == WithImage(run.userMessage, imageBase64)
            IN  /\ chat' = Apply(run, chat, AfterSend(chat, userMessage))
                /\ handlers' = (handlers (-) One(run)) (+) One(Sent(run, userMessage, imageBase64))
       ELSE /\ chat' = chat
            /\ handlers' = (handlers (-) One(run)) (+) One(Sent(run, Nil, Nil))
  /\ UNCHANGED <<env, isAuthenticated, authForm, authRun>>

\* reader.onload of a text read: Chat.tsx 77-84, then 100-106
TextLoaded(run, text) ==
  /\ run \in Runs /\ run.pc = "read" /\ (run.live => ~IsImage(run.file))
  /\ delivered' = Receive(run, Loaded(text))
  /\ IF run.live
       THEN LET userMessage == WithHiddenContent(run.userMessage, delivered'.result)
            IN  /\ chat' = Apply(run, chat, AfterSend(chat, userMessage))
                /\ handlers' = (handlers (-) One(run)) (+) One(Sent(run, userMessage, Undefined))
       ELSE /\ chat' = chat
            /\ handlers' = (handlers (-) One(run)) (+) One(Sent(run, Nil, Nil))
  /\ UNCHANGED <<env, isAuthenticated, authForm, authRun>>

\* reader.onerror: the catch block of the read, and return
ReadFailed(run) ==
  /\ run \in Runs /\ run.pc = "read"
  /\ delivered' = Receive(run, ReadError)
  /\ chat' = Apply(run, chat, AfterReadError(chat, run.file))
  /\ handlers' = handlers (-) One(run)
  /\ UNCHANGED <<env, isAuthenticated, authForm, authRun>>

\* ollama.chat settles: Chat.tsx 117-147
InferenceSettled(run, outcome) ==
  /\ run \in Runs /\ run.pc = "infer"
  /\ delivered' = Receive(run, outcome)
  /\ chat' = Apply(run, chat, AfterSettle(chat, AssistantEntry(outcome)))
  /\ handlers' = handlers (-) One(run)
  /\ UNCHANGED <<env, isAuthenticated, authForm, authRun>>

Next ==
  \/ \E v \in Usernames \cup {""} : SetUsername(v)
  \/ \E v \in Passwords \cup {""} : SetPassword(v)
  \/ HandleAuth
  \/ AuthSucceed
  \/ AuthMismatch
  \/ AuthReject
  \/ Logout
  \/ \E v \in Inputs : SetInput(v)
  \/ \E f \in Files \cup {Null} : SelectFile(f)
  \/ SubmitIgnored
  \/ SubmitText
  \/ SubmitFile
  \/ \E run \in Runs, b64 \in Payloads : ImageLoaded(run, b64)
  \/ \E run \in Runs, text \in FileTexts : TextLoaded(run, text)
  \/ \E run \in Runs : ReadFailed(run)
  \/ \E run \in Runs, outcome \in Outcomes : InferenceSettled(run, outcome)

Spec == Init /\ [][Next]_vars

\* ------------------------------------------- the program, driven narrowly
\* The same handlers with fewer things typed and answered, and with the
\* image file that has no bytes: its data URL ends at the comma.
NarrowInputs == { <<>>, <<" ", "Hello">> }
NarrowPayloads == Payloads \cup { <<>> }
NarrowOutcomes ==
  { [kind |-> "resolve",
     response |-> [done |-> TRUE, message |-> [role |-> "assistant", content |-> <<"Hi there">>]]],
    [kind |-> "reject", error |-> [isError |-> TRUE, message |-> <<"Failed to fetch">>]],
    [kind |-> "reject", error |-> [isError |-> TRUE, message |-> <<"model not found">>]] }

NarrowNext ==
  \/ \E v \in {"admin"} : SetUsername(v)
  \/ \E v \in Passwords : SetPassword(v)
  \/ HandleAuth
  \/ AuthSucceed
  \/ AuthMismatch
  \/ AuthReject
  \/ Logout
  \/ \E v \in NarrowInputs : SetInput(v)
  \/ \E f \in Files \cup {Null} : SelectFile(f)
  \/ SubmitIgnored
  \/ SubmitText
  \/ SubmitFile
  \/ \E run \in Runs, b64 \in NarrowPayloads : ImageLoaded(run, b64)
  \/ \E run \in Runs, text \in FileTexts : TextLoaded(run, text)
  \/ \E run \in Runs : ReadFailed(run)
  \/ \E run \in Runs, outcome \in NarrowOutcomes : InferenceSettled(run, outcome)

NarrowSpec == Init /\ [][NarrowNext]_vars

\* What is awaited comes: the 500 ms timer of handleAuth fires, the shake
\* animation ends, and a call of ollama.chat is answered or fails.
FairSpec ==
  /\ NarrowSpec
  /\ WF_vars(AuthSucceed \/ AuthMismatch)
  /\ WF_vars(AuthReject)
  /\ WF_vars(\E run \in Runs, outcome \in NarrowOutcomes : InferenceSettled(run, outcome))

TypeOK ==
  /\ isAuthenticated \in BOOLEAN
  /\ (chat # Nil) <=> isAuthenticated
  /\ (authForm # Nil) <=> ~isAuthenticated
  /\ BagCardinality(handlers) <= MaxHandlers
  /\ chat # Nil => Len(chat.messages) <= MaxMessages

\* ------------------------------------------------------------ properties
Last(seq) == seq[Len(seq)]

\* The step ends the run: it was suspended and is gone, nothing took its place
Ends(run) == run \in Runs /\ handlers' = handlers (-) One(run)

\* The step moves the run from its file read to ollama.chat, as run "next"
Sends(run, next) ==
  /\ run \in Runs /\ run.pc = "read"
  /\ next.pc = "infer"
  /\ handlers' = (handlers (-) One(run)) (+) One(next)

\* The step starts a run
Starts(run) == handlers' = handlers (+) One(run)

NewRuns == BagToSet(handlers')

\* C1: a text-only submission with non-empty input appends exactly two
\* entries, in order.  The step that submits it appends the user message
\* (role user, the typed input, no image) and nothing else; the step in which
\* its inference call settles finds that message where it was put and
\* appends one assistant-role entry after it.
C1_TextOnlyAppendsUserThenAssistant ==
  [][ /\ \A run \in NewRuns :
           (Starts(run) /\ run.pc = "infer") =>
              /\ Truthy(Trim(chat.input)) /\ chat.selectedFile = Null
              /\ chat'.messages = Append(chat.messages, [role |-> "user", content |-> chat.input])
              /\ run.at = Len(chat'.messages)
      /\ \A run \in Runs :
           (Ends(run) /\ run.live /\ run.pc = "infer" /\ run.file = Null) =>
              /\ run.at <= Len(chat.messages)
              /\ chat.messages[run.at] = run.userMessage
              /\ chat.messages[run.at].role = "user"
              /\ Len(chat'.messages) = Len(chat.messages) + 1
              /\ SubSeq(chat'.messages, 1, Len(chat.messages)) = chat.messages
              /\ Last(chat'.messages).role = "assistant"
    ]_vars

\* C1 witness: the transcript of one finished text-only exchange
C1_Witness ==
  /\ chat # Nil /\ handlers = EmptyBag
  /\ delivered # Nil /\ delivered.kind \in {"resolve", "reject"}
  /\ Len(chat.messages) = 2
  /\ chat.messages[1] = [role |-> "user", content |-> <<" ", "Hello">>]
  /\ chat.messages[2].role = "assistant"

\* C2 as claimed: whenever a step of a submission appends an assistant-role
\* entry, that submission's user message is already in the transcript.
C2_AssistantEntryOnlyAfterUserMessage ==
  [][ \A run \in Runs :
        ( /\ Ends(run) /\ run.live
          /\ Len(chat'.messages) = Len(chat.messages) + 1
          /\ Last(chat'.messages).role = "assistant" ) =>
            /\ run.pc = "infer"
            /\ run.at <= Len(chat.messages)
            /\ chat.messages[run.at] = run.userMessage
    ]_vars

\* C2 as amended: whenever a settling inference call appends its reply or
\* its error entry, the user message of that submission is already in the
\* transcript, before the place of the new entry; the only other assistant
\* entry a submission appends is the diagnostic of its failed file read, and
\* that submission has appended no user message.
C2_ReplyOnlyAfterUserMessage ==
  [][ \A run \in Runs :
        ( /\ Ends(run) /\ run.live
          /\ Len(chat'.messages) = Len(chat.messages) + 1
          /\ Last(chat'.messages).role = "assistant" ) =>
            \/ /\ run.pc = "infer"
               /\ run.at <= Len(chat.messages)
               /\ chat.messages[run.at] = run.userMessage
               /\ chat.messages[run.at].role = "user"
               /\ SubSeq(chat'.messages, 1, Len(chat.messages)) = chat.messages
            \/ /\ run.pc = "read"
               /\ delivered' = ReadError
               /\ Last(chat'.messages).content \in {ImageErrorText, FileErrorText}
    ]_vars

\* C2 witness: a reply has been appended for a submission with an attachment,
\* after its user message
C2_Witness ==
  /\ chat # Nil
  /\ delivered # Nil /\ delivered.kind = "resolve"
  /\ Len(chat.messages) = 2
  /\ chat.messages[1].role = "user"
  /\ Includes(chat.messages[1].content, HiddenMarker)
  /\ chat.messages[2] = AssistantMessage(<<"Hi there">>)

\* C3 as claimed: between its guard and its end a run of handleSubmit is the
\* only one of its Chat, in its file read as well as in its inference call;
\* so at most one inference call is in flight.
C3_AtMostOneSubmissionOutstanding ==
  CountRuns(LiveRuns) <= 1

\* C4 as claimed: the loading indicator is present exactly while an
\* inference call of the mounted Chat is outstanding.
C4_LoadingWhileSendOutstanding ==
  chat # Nil => (chat.isLoading <=> \E run \in LiveRuns : run.pc = "infer")

\* C5: a step that logs in leaves the Chat view, and only it, mounted, with
\* an empty transcript; a step that logs out leaves the AuthForm view, and
\* only it, mounted, and no transcript; in every state the mounted view is
\* the one the authentication state selects.
C5_ViewFollowsAuthentication ==
  [][ /\ (~isAuthenticated /\ isAuthenticated') =>
            (chat' # Nil /\ chat'.messages = <<>> /\ authForm' = Nil)
      /\ (isAuthenticated /\ ~isAuthenticated') =>
            (chat' = Nil /\ authForm' # Nil)
      /\ (isAuthenticated <=> chat # Nil) /\ (isAuthenticated <=> authForm = Nil)
      /\ (isAuthenticated' <=> chat' # Nil) /\ (isAuthenticated' <=> authForm' = Nil)
    ]_vars

\* C5 witness: a Chat mounted after a logout that cut a submission short
\* (its run is still suspended, detached), with an empty transcript
C5_Witness ==
  /\ isAuthenticated /\ chat # Nil /\ chat.messages = <<>>
  /\ \E run \in Runs : ~run.live /\ run.pc = "infer"

\* The configured reference pair is the pair (username, password)
IsReferencePair(username, password) ==
  /\ env.username.kind = "string" /\ env.password.kind = "string"
  /\ env.username.val = username /\ env.password.val = password

\* C6: the step in which handleAuth compares the submitted pair sets the
\* authentication state to true if the pair is the configured reference
\* pair, and leaves it false otherwise.
C6_LoginIffReferencePair ==
  [][ (authRun # Nil /\ authRun.pc = "delay" /\ authRun' # authRun) =>
        /\ ~isAuthenticated
        /\ isAuthenticated' <=> IsReferencePair(authRun.username, authRun.password)
    ]_vars

\* C6 witness: a pair with the right username only has been turned down
C6_Witness ==
  /\ authRun # Nil /\ authRun.pc = "shake" /\ ~isAuthenticated
  /\ env.username = Str(authRun.username)
  /\ env.password = Str("secret") /\ authRun.password = "wrong"

\* C7: the step in which the file read of a submission fails appends one
\* assistant-role diagnostic, clears the pending attachment, changes nothing
\* else of the Chat (no user message, loading flag as it was), and ends the
\* run without an inference call.
C7_ReadFailureAbortsSend ==
  [][ \A run \in Runs :
        (run.live /\ run.pc = "read" /\ delivered' = ReadError) =>
          /\ \E text \in {ImageErrorText, FileErrorText} :
               chat' = [chat EXCEPT !.messages = Append(@, [role |-> "assistant", content |-> text]),
                                    !.selectedFile = Null]
          /\ BagCardinality(handlers') = BagCardinality(handlers) - 1
          /\ \A next \in NewRuns :
               next.pc = "infer" => CopiesIn(next, handlers') = CopiesIn(next, handlers)
    ]_vars

\* C7 witness: a failed image read has left its diagnostic as the only entry
C7_Witness ==
  /\ chat # Nil /\ delivered = ReadError
  /\ chat.messages = <<AssistantMessage(ImageErrorText)>>
  /\ chat.selectedFile = Null /\ ~chat.isLoading /\ handlers = EmptyBag

ExpectedText(outcome) ==
  IF outcome.kind = "resolve"
    THEN IF outcome.response # Null /\ "message" \in DOMAIN outcome.response
           THEN outcome.response.message.content
           ELSE GenericErrorText
    ELSE IF /\ outcome.error.isError
            /\ \E i \in 1..Len(outcome.error.message) :
                 outcome.error.message[i] \in {"Failed to fetch", "NetworkError"}
           THEN ConnectErrorText
           ELSE GenericErrorText

\* C9: the step in which an inference call settles appends exactly one
\* assistant-role entry, the last of the transcript, and ends the run with the
\* loading flag off: the reply text for a response with a message, the
\* connectivity diagnostic for an Error naming "Failed to fetch" or
\* "NetworkError", the generic diagnostic for everything else.
C9_OutcomeBecomesOneAssistantEntry ==
  [][ (delivered' # Nil /\ delivered'.kind \in {"resolve", "reject"}) =>
        /\ chat'.messages =
             Append(chat.messages, [role |-> "assistant", content |-> ExpectedText(delivered')])
        /\ ~chat'.isLoading
        /\ BagCardinality(handlers') = BagCardinality(handlers) - 1
        /\ Includes(ConnectErrorText, <<"make sure Ollama is running">>)
        /\ ~Includes(GenericErrorText, <<"make sure Ollama is running">>)
    ]_vars

\* C9 witness: an unreachable service has left the connectivity diagnostic
\* as the final entry
C9_Witness ==
  /\ chat # Nil /\ delivered # Nil /\ delivered.kind = "reject"
  /\ delivered.error.message = <<"Failed to fetch">> /\ delivered.error.isError
  /\ Last(chat.messages).role = "assistant"
  /\ Includes(Last(chat.messages).content, <<"make sure Ollama is running">>)

\* C10: a submission with an attachment keeps the typed input and the file;
\* when the read of an image file is done, the user message appended has the
\* typed input as its text and exactly one image payload; when the read of
\* any other file is done, the user message appended has the typed input
\* followed by the "[Hidden File Content]" block with the file's text, and
\* no image.
C10_AttachmentShapesUserMessage ==
  [][ /\ \A run \in NewRuns :
           (Starts(run) /\ run.pc = "read") =>
              /\ run.file = chat.selectedFile /\ run.file \in Files
              /\ run.userMessage = [role |-> "user", content |-> chat.input]
      /\ \A run \in Runs, next \in NewRuns :
           (run.live /\ Sends(run, next)) =>
              /\ Last(chat'.messages) = next.userMessage
              /\ Len(chat'.messages) = Len(chat.messages) + 1
              /\ next.userMessage.role = "user"
              /\ IF run.file.type[1] = "image/"
                   THEN /\ next.userMessage.content = run.userMessage.content
                        /\ "images" \in DOMAIN next.userMessage
                        /\ Len(next.userMessage.images) = 1
                        /\ next.userMessage.images[1].kind = "string"
                   ELSE /\ next.userMessage.content =
                             run.userMessage.content
                               \o <<"\n", "\n", "[Hidden File Content]:", "\n">>
                               \o delivered'.result
                        /\ "images" \notin DOMAIN next.userMessage
    ]_vars

\* C10 witness: an image sent with an empty input
C10_Witness ==
  /\ chat # Nil /\ Len(chat.messages) >= 1
  /\ chat.messages[1].role = "user"
  /\ chat.messages[1].content = <<>>
  /\ "images" \in DOMAIN chat.messages[1]
  /\ chat.messages[1].images = <<Str(<<"QUJD">>)>>

\* C11: every inference request is single-turn.  In the step in which a
\* submission calls ollama.chat, the request names the one constant model
\* and holds exactly one message, whatever the length of the transcript:
\* its role is user, its text is the text of the user message the step
\* appends to the transcript (hidden-file block included), and its image
\* payload, if it has one, is that message's image; it has one exactly when
\* that message's image is a non-empty string.
C11_RequestIsLatestUserMessageOnly ==
  [][ \A next \in NewRuns :
        ( /\ next.pc = "infer" /\ next.live
          /\ CopiesIn(next, handlers') > CopiesIn(next, handlers) ) =>
            LET request == next.request
                sent == Last(chat'.messages)
            IN  /\ DOMAIN request = {"model", "messages"}
                /\ request.model = "llama3.2-vision:11b"
                /\ Len(request.messages) = 1
                /\ Len(chat'.messages) = Len(chat.messages) + 1
                /\ sent.role = "user"
                /\ request.messages[1].role = "user"
                /\ request.messages[1].content = sent.content
                /\ DOMAIN request.messages[1] \subseteq {"role", "content", "images"}
                /\ "images" \in DOMAIN request.messages[1] =>
                      /\ "images" \in DOMAIN sent
                      /\ request.messages[1].images = sent.images
                /\ "images" \in DOMAIN request.messages[1] <=>
                      /\ "images" \in DOMAIN sent
                      /\ sent.images[1].kind = "string"
                      /\ sent.images[1].val # <<>>
    ]_vars

\* C11 witness: a request with an image is outstanding for the third entry
\* of the transcript, after a text-only exchange
C11_Witness ==
  /\ chat # Nil /\ Len(chat.messages) = 3
  /\ "images" \notin DOMAIN chat.messages[1]
  /\ \E run \in LiveRuns :
       /\ run.pc = "infer" /\ run.at = 3
       /\ Len(run.request.messages) = 1
       /\ "images" \in DOMAIN run.request.messages[1]
       /\ run.request.messages[1].images = chat.messages[3].images

\* C12: within one chat session the transcript is append-only.  Every step
\* that leaves the same Chat mounted leaves the transcript as it was or
\* with one entry appended: every previous entry is in its place, unchanged;
\* an entry is appended only by a submission (its user message) or by the
\* continuation of a run (its diagnostic or its reply); and the bubbles are
\* rendered one per entry, in the order of the transcript.
C12_TranscriptAppendOnly ==
  [][ (chat # Nil /\ chat' # Nil /\ chat'.messages # chat.messages) =>
        /\ Len(chat'.messages) = Len(chat.messages) + 1
        /\ SubSeq(chat'.messages, 1, Len(chat.messages)) = chat.messages
        /\ delivered' # Nil \/ BagCardinality(handlers') = BagCardinality(handlers) + 1
        /\ LET shown == RenderMessages(chat'.messages)
            IN  /\ Len(shown) = Len(chat'.messages)
                /\ SubSeq(shown, 1, Len(chat.messages)) = RenderMessages(chat.messages)
                /\ Last(shown).key = Len(chat'.messages)
                /\ Last(shown).markdown = Last(chat'.messages).content
    ]_vars

\* C12 witness: a transcript grown by a failed file read, a submission and
\* a failed inference call, in that order
C12_Witness ==
  /\ chat # Nil /\ Len(chat.messages) = 3
  /\ chat.messages[1] = AssistantMessage(FileErrorText)
  /\ chat.messages[2].role = "user"
  /\ chat.messages[3] = AssistantMessage(ConnectErrorText)
  /\ delivered # Nil /\ delivered.kind = "reject"

\* C13: the authentication state starts false and changes in two ways only.
\* It goes from false to true only in the step in which handleAuth compares
\* a submitted pair that is the configured reference pair; it goes from true
\* to false only in the step of a click on Logout; a step of handleAuth on
\* a pair that is not the reference pair leaves it false and the AuthForm
\* mounted; every other step leaves it as it is.
C13_AuthenticationTransitions ==
  /\ ~isAuthenticated
  /\ [][ /\ (~isAuthenticated /\ isAuthenticated') =>
              /\ authRun # Nil /\ authRun.pc = "delay" /\ authRun' = Nil
              /\ IsReferencePair(authRun.username, authRun.password)
         /\ (isAuthenticated /\ ~isAuthenticated') => Logout
         /\ ( /\ authRun # Nil /\ authRun' # authRun
              /\ ~IsReferencePair(authRun.username, authRun.password) ) =>
                /\ ~isAuthenticated /\ ~isAuthenticated'
                /\ authForm # Nil /\ authForm' # Nil
                /\ chat' = Nil
         /\ ~(AuthSucceed \/ Logout) => isAuthenticated' = isAuthenticated
       ]_vars

\* C13 witness: after a session that a logout ended (a run of it is still
\* suspended), a pair that is not the reference pair has been compared and
\* the authentication state is false, the form mounted
C13_Witness ==
  /\ ~isAuthenticated /\ authForm # Nil /\ chat = Nil
  /\ handlers # EmptyBag
  /\ authRun # Nil /\ authRun.pc = "shake"
  /\ ~IsReferencePair(authRun.username, authRun.password)

\* The awaited promise gave the run a failure
IsFailure(value) ==
  /\ value # Nil
  /\ \/ value.kind \in {"error", "reject"}
     \/ value.kind = "resolve" /\ InvalidResponse(value.response)

C15_LateResolutionAffectsNoLaterSession ==
  [][ /\ \A run \in Runs :
           ( /\ ~run.live
             /\ \/ Ends(run)
                \/ \E next \in NewRuns : Sends(run, next) ) =>
               /\ chat' = chat
               /\ isAuthenticated' = isAuthenticated
      /\ (chat = Nil /\ chat' # Nil) =>
           /\ chat'.messages = <<>> /\ ~chat'.isLoading
           /\ handlers' = handlers
           /\ \A run \in Runs : ~run.live
      /\ ( /\ chat # Nil /\ chat' # Nil
           /\ \/ chat'.messages # chat.messages
              \/ ~chat.isLoading /\ chat'.isLoading ) =>
             \/ \E run \in LiveRuns : Ends(run)
             \/ \E run \in LiveRuns, next \in NewRuns : next.live /\ Sends(run, next)
             \/ \E next \in NewRuns : next.live /\ Starts(next) /\ CanSubmit
    ]_vars

\* C15 witness: a second session with an exchange of its own under way,
\* while a call of the session before it is still outstanding
C15_Witness ==
  /\ chat # Nil /\ Len(chat.messages) = 1 /\ chat.isLoading
  /\ \E run \in Runs : ~run.live /\ run.pc = "infer"
  /\ \E run \in LiveRuns : run.pc = "infer" /\ run.at = 1

\* The input is empty or whitespace-only and no attachment is pending
IsBlank(c) ==
  /\ c.selectedFile = Null
  /\ \A i \in 1..Len(c.input) : c.input[i] \in {" ", "\n"}

\* C16: a submission with an empty or whitespace-only input and no pending
\* attachment is a no-op.  From a state in which the form can be submitted
\* and is blank, no step takes a run of handleSubmit past its guard: no run
\* is added, and ollama.chat is called only by the continuation of the file
\* read of an earlier submission; every step that is not such a
\* continuation leaves the transcript and the loading flag as they are; and
\* the submission itself leaves the whole Chat and the runs as they are.
C16_BlankSubmissionIsNoOp ==
  [][ (CanSubmit /\ IsBlank(chat)) =>
        /\ \A next \in NewRuns :
             (next.live /\ CopiesIn(next, handlers') > CopiesIn(next, handlers)) =>
               (next.pc = "infer" /\ delivered' # Nil /\ delivered'.kind = "load")
        /\ BagCardinality(handlers') <= BagCardinality(handlers)
        /\ (chat' # Nil /\ delivered' = Nil) =>
             /\ chat'.messages = chat.messages
             /\ chat'.isLoading = chat.isLoading
        /\ SubmitIgnored => (chat' = chat /\ handlers' = handlers)
    ]_vars

\* C16 witness: the form can be submitted with a whitespace-only input and
\* no attachment, after an exchange: the transcript has two entries and no
\* run is under way
C16_Witness ==
  /\ CanSubmit /\ chat.input = <<" ">> /\ chat.selectedFile = Null
  /\ Len(chat.messages) = 2 /\ handlers = EmptyBag
  /\ delivered = Nil

\* C17: the settling of an inference call, success or failure, changes the
\* transcript (one assistant entry appended) and the loading flag, and
\* nothing else: the input typed and the attachment selected while the call
\* was outstanding are as they were, and so is everything outside the Chat;
\* and the submission that follows takes them: the run it starts holds the
\* input as the text of its user message and the attachment as its file.
C17_SettlingKeepsInputAndAttachment ==
  [][ /\ (delivered' # Nil /\ delivered'.kind \in {"resolve", "reject"}) =>
           /\ chat'.input = chat.input
           /\ chat'.selectedFile = chat.selectedFile
           /\ Len(chat'.messages) = Len(chat.messages) + 1
           /\ Last(chat'.messages).role = "assistant"
           /\ chat' = [chat EXCEPT !.messages = Append(@, Last(chat'.messages)),
                                   !.isLoading = FALSE]
           /\ UNCHANGED <<env, isAuthenticated, authForm, authRun>>
      /\ \A next \in NewRuns :
           (next.live /\ Starts(next)) =>
              /\ next.userMessage.content = chat.input
              /\ next.file = chat.selectedFile
    ]_vars

\* C17 witness: a call has settled; the text typed and the image selected
\* while it was outstanding are in place, and the form can be submitted
C17_Witness ==
  /\ CanSubmit /\ delivered # Nil /\ delivered.kind = "resolve"
  /\ chat.input = <<" ", "Hello">> /\ chat.selectedFile = ImageFile
  /\ Len(chat.messages) = 2 /\ handlers = EmptyBag

====
